---- MODULE Spec2Model ----
(***************************************************************************)
(* State-machine model of modules/devio.c (quadcastrgb): open_micro,       *)
(* claim_dev_interface, dev_search, is_compatible_mic, send_packets,       *)
(* display_data_arr, send_display_command, attempt_reconnect and the       *)
(* signal handler nonstop_reset_handler.                                  *)
(*                                                                         *)
(* The main flow is one sequential process whose position is pc; each C    *)
(* function has a frame (a record of its locals).  The signal handler is   *)
(* an asynchronous action that may run between any two steps of the main   *)
(* flow once a handler is installed.  The USB library is the environment:  *)
(* every libusb call draws its result from the outcomes the library can    *)
(* return.                                                                 *)
(***************************************************************************)
EXTENDS Integers, Sequences, FiniteSets, TLC

(***************************************************************************)
(* Bounds of the model                                                     *)
(***************************************************************************)
\* largest number of color units count_color_commands reports
MaxUnits == 2
\* the library hands out at most this many device handles in one run
MaxHandles == 3
\* reconnect_attempts is recorded up to this value (it saturates)
MaxAttempts == 2

(***************************************************************************)
(* Program constants                                                       *)
(***************************************************************************)
NULL == 0
PACKET_SIZE == 64
HEADER_CODE == 4
DISPLAY_CODE == 242
PACKET_CNT == 1
\* width of one color command in bytes; a unit of the stream is 2*BYTE_STEP
BYTE_STEP == 4
\* exit codes (the enum of devio.c)
libusberr == 2
nodeverr == 3
devopenerr == 4
transfererr == 5
\* vendor and product ids
DEV_VID_KINGSTON == 2385
DEV_VID_HP == 1008
product_ids_kingston == <<5919>>
product_ids_hp == <<3979, 652, 1164, 1676, 2444>>
\* libusb error codes the code distinguishes
LIBUSB_ERROR_NO_DEVICE == -4
LIBUSB_ERROR_BUSY == -6
LIBUSB_ERROR_TIMEOUT == -7
LIBUSB_ERROR_OTHER == -99
\* retry limits of the three retry loops
ENUM_RETRIES == 3
OPEN_RETRIES == 3
CLAIM_RETRIES == 3

\* messages written to stderr
DEVLIST_ERR_MSG == "Couldn't get the list of USB devices."
NODEV_ERR_MSG == "HyperX Quadcast S/DuoCast isn't connected or accessible through USB."
OPEN_ERR_MSG == "Couldn't open the microphone."
BUSY_ERR_MSG == "Another program is using the microphone already. Stopping."
INIT_ERR_MSG == "libusb_init"

(***************************************************************************)
(* Device matching: is_compatible_mic and dev_search                       *)
(***************************************************************************)
\* a device as the library enumerates it: its descriptor and whether the
\* descriptor can be read
Device(v, p, ok) == [idVendor |-> v, idProduct |-> p, descr_ok |-> ok]

SeqContains(arr, x) == \E i \in 1..Len(arr) : arr[i] = x

\* a match on the product id alone, whatever the vendor
is_compatible_mic_any_vendor(dev) ==
    IF ~dev.descr_ok THEN FALSE
    ELSE SeqContains(product_ids_kingston \o product_ids_hp, dev.idProduct)

is_compatible_mic(dev) ==
    IF ~dev.descr_ok THEN FALSE
    ELSE IF dev.idVendor = DEV_VID_KINGSTON
         THEN SeqContains(product_ids_kingston, dev.idProduct)
    ELSE IF dev.idVendor = DEV_VID_HP
         THEN SeqContains(product_ids_hp, dev.idProduct)
    ELSE FALSE

\* index (1-based) of the first compatible device of the list, NULL if none
dev_search(devs) ==
    IF \E i \in 1..Len(devs) : is_compatible_mic(devs[i])
    THEN CHOOSE i \in 1..Len(devs) :
            /\ is_compatible_mic(devs[i])
            /\ \A j \in 1..(i-1) : ~is_compatible_mic(devs[j])
    ELSE NULL

\* the device lists the environment may return from libusb_get_device_list
Hub == Device(7531, 2, TRUE)
Quadcast == Device(DEV_VID_KINGSTON, 5919, TRUE)
Duocast == Device(DEV_VID_HP, 2444, TRUE)
HpOther == Device(DEV_VID_HP, 5919, TRUE)
Unreadable == Device(DEV_VID_HP, 2444, FALSE)
DevLists ==
    { <<>>, <<Hub, Unreadable, HpOther>>, <<Unreadable, Duocast, Quadcast>> }

(***************************************************************************)
(* Frames                                                                  *)
(***************************************************************************)
ZeroFrame == [i \in 1..PACKET_SIZE |-> 0]

\* a header with the packet count one byte early
header_packet_cnt_at_7 ==
    [i \in 1..PACKET_SIZE |->
        IF i = 1 THEN HEADER_CODE
        ELSE IF i = 2 THEN DISPLAY_CODE
        ELSE IF i = 8 THEN PACKET_CNT
        ELSE 0]

\* header_packet of display_data_arr: the initialiser lists 32 bytes, the
\* rest of the array is zero-initialised
header_packet ==
    [i \in 1..PACKET_SIZE |->
        IF i = 1 THEN HEADER_CODE
        ELSE IF i = 2 THEN DISPLAY_CODE
        ELSE IF i = 9 THEN PACKET_CNT
        ELSE 0]

\* the color stream *data_arr: command_cnt units of 2*BYTE_STEP bytes; byte
\* k (0-based) of the stream.  Every color command starts with a non-zero
\* code byte, the color bytes differ from unit to unit.
UnitLen == 2 * BYTE_STEP
StreamByte(k) == 1 + ((k * 37) % 255)

\* a copy of one color command instead of two
memcpy_one_command(packet, colcommand) ==
    [i \in 1..PACKET_SIZE |->
        IF i <= BYTE_STEP THEN StreamByte(colcommand + i - 1) ELSE packet[i]]

\* memcpy(packet, colcommand, 2*BYTE_STEP): colcommand is a byte offset
memcpy_unit(packet, colcommand) ==
    [i \in 1..PACKET_SIZE |->
        IF i <= UnitLen THEN StreamByte(colcommand + i - 1) ELSE packet[i]]

(***************************************************************************)
(* State                                                                   *)
(***************************************************************************)
VARIABLES
    pc,             \* position of the main flow
    nonstop,        \* volatile static sig_atomic_t nonstop
    handlers,       \* signals whose handler is nonstop_reset_handler
    usb_ctx,        \* libusb_init succeeded and libusb_exit was not called
    openHandles,    \* device handles opened and not closed
    claimed,        \* <<handle, interface>> pairs claimed and not released
    nextHandle,     \* the handle the next successful libusb_open returns
    liveLists,      \* device lists retrieved and not freed
    data_arr_live,  \* data_arr was not freed
    om,             \* frame of open_micro
    cdi,            \* frame of claim_dev_interface
    sp,             \* frame of send_packets
    dda,            \* frame of display_data_arr
    ar,             \* frame of attempt_reconnect
    exit_code,      \* argument of exit(), meaningful when pc = "exited"
    stderr,         \* messages written to stderr
    signalled,      \* history: a handled signal was delivered
    hist            \* history: the last transfers, counters and flags

vars == << pc, nonstop, handlers, usb_ctx, openHandles, claimed, nextHandle,
           liveLists, data_arr_live, om, cdi, sp, dda, ar, exit_code, stderr,
           signalled, hist >>

\* the variables of the USB library and of the process's outcome
usbVars == << usb_ctx, openHandles, claimed, nextHandle, liveLists >>
outVars == << exit_code, stderr, data_arr_live >>
sigVars == << nonstop, handlers, signalled >>
histVars == << hist >>

\* a libusb_device **devs local: uninitialised, pointing to a retrieved
\* list, or pointing to a list that was freed
NoList == [state |-> "uninit", list |-> <<>>]

OmInit == [devs |-> NoList, micro_dev |-> NULL, handle |-> NULL,
           errcode |-> 0, retry_count |-> 0]
CdiInit == [handle |-> NULL, errcode0 |-> 0, errcode1 |-> 0, retry |-> 0,
            ret |-> "none"]
SpInit == [current_handle |-> NULL, command_cnt |-> 0,
           reconnect_attempts |-> 0, display_result |-> 0,
           new_handle |-> NULL]
DdaInit == [colcommand |-> 0, sent |-> 0, packet |-> <<>>]
ArInit == [devs |-> NoList, micro_dev |-> NULL, handle |-> NULL,
           errcode |-> 0, retry |-> 0]
\* a control transfer: which frame, on which handle, for which stream
\* offset, the frame's bytes and whether the library returned PACKET_SIZE
NoXfer == [kind |-> "none", handle |-> NULL, pos |-> 0, full |-> FALSE,
           frame |-> <<>>]
HistInit == [last |-> NoXfer,      \* the most recent control transfer
             prev |-> NoXfer,      \* the one before it
             lastData |-> -1,      \* stream offset of the most recent
                                   \* data frame, -1 if none
             prevData |-> -1,      \* and of the data frame before it
             dataOn |-> 0,         \* data frames initiated on the handle
                                   \* of the last transfer (up to 2)
             failPos |-> 0,        \* stream offset of the last failure
             afterStop |-> 0,      \* transfers initiated while nonstop = 0
             sawStop |-> FALSE,    \* a loop check read nonstop = 0
             afterSawStop |-> FALSE, \* a transfer was initiated after that
             failedOn |-> {},      \* handles on which a transfer failed
             onFailed |-> FALSE,   \* a transfer used a handle of failedOn
             onDead |-> FALSE,     \* a transfer used a handle not open
             closes |-> <<>>,      \* handles passed to libusb_close
             fatal |-> "none",     \* the fatal condition open_micro met
             opens |-> 0,          \* libusb_open calls of the connection
                                   \* attempt in progress
             claims |-> 0]         \* and its attempts to claim the pair

Init ==
    /\ pc = "om_init"
    /\ nonstop = 0
    /\ handlers = {}
    /\ usb_ctx = FALSE
    /\ openHandles = {}
    /\ claimed = {}
    /\ nextHandle = 1
    /\ liveLists = 0
    /\ data_arr_live = TRUE
    /\ om = OmInit
    /\ cdi = CdiInit
    /\ sp = SpInit
    /\ dda = DdaInit
    /\ ar = ArInit
    /\ exit_code = 0
    /\ stderr = {}
    /\ signalled = FALSE
    /\ hist = HistInit

(***************************************************************************)
(* libusb_free_device_list(devs, 1).  Freeing a list that was retrieved    *)
(* and not yet freed frees it.  Freeing through an uninitialised pointer   *)
(* or a second time is undefined: the call may do nothing visible or the   *)
(* process may crash.                                                      *)
(***************************************************************************)
FreeOutcomes(devs) ==
    IF devs.state = "live" THEN {"freed"} ELSE {"ignored", "crash"}

FreedDevs(devs, o) ==
    IF o = "freed" THEN [devs EXCEPT !.state = "freed"] ELSE devs

FreedCount(n, o) == IF o = "freed" THEN n - 1 ELSE n

(***************************************************************************)
(* open_micro                                                              *)
(***************************************************************************)
\* the fatal conditions of open_micro
FatalClasses == {"init", "devlist", "nodev", "open", "claim_busy",
                 "claim_gone", "claim_other"}

\* the argument of exit() for each of them: line 152 for the failure of
\* libusb_init, FREE_AND_EXIT (line 82) for all the others
FatalExitCode(class) == libusberr

\* lines 149-153: libusb_init
OM_Init ==
    /\ pc = "om_init"
    /\ \E ok \in BOOLEAN :
        IF ok
        THEN /\ usb_ctx' = TRUE
             /\ pc' = "om_enum_loop"
             /\ UNCHANGED outVars
        ELSE /\ stderr' = stderr \cup {INIT_ERR_MSG}
             /\ data_arr_live' = FALSE
             /\ exit_code' = FatalExitCode("init")
             /\ pc' = "exited"
             /\ UNCHANGED usb_ctx
    /\ hist' = [hist EXCEPT !.fatal = IF pc' = "exited" THEN "init" ELSE @]
    /\ UNCHANGED << sigVars, openHandles, claimed, nextHandle, liveLists,
                    om, cdi, sp, dda, ar >>

\* line 161: the condition of the enumeration loop
OM_EnumLoop ==
    /\ pc = "om_enum_loop"
    /\ pc' = IF om.retry_count < ENUM_RETRIES THEN "om_getlist"
             ELSE "om_handle_nodev"
    /\ UNCHANGED << sigVars, usbVars, outVars, om, cdi, sp, dda, ar,
                    histVars >>

\* lines 169-171 and 175: libusb_get_device_list fails
OM_GetListFail ==
    /\ pc = "om_getlist"
    /\ IF om.retry_count < ENUM_RETRIES - 1
       THEN /\ pc' = "om_free_retry"
            /\ UNCHANGED stderr
       ELSE /\ stderr' = stderr \cup {DEVLIST_ERR_MSG}
            /\ pc' = "om_free_and_exit"
    /\ hist' = [hist EXCEPT !.fatal =
                  IF pc' = "om_free_and_exit" THEN "devlist" ELSE @]
    /\ UNCHANGED << sigVars, usbVars, exit_code, data_arr_live, om, cdi, sp,
                    dda, ar >>

\* lines 172-173: libusb_free_device_list(devs, 1); continue
OM_FreeRetry ==
    /\ pc = "om_free_retry"
    /\ \E o \in FreeOutcomes(om.devs) :
        /\ liveLists' = FreedCount(liveLists, o)
        /\ IF o = "crash"
           THEN pc' = "crashed" /\ UNCHANGED om
           ELSE /\ pc' = "om_enum_loop"
                /\ om' = [om EXCEPT !.devs = FreedDevs(om.devs, o),
                                    !.retry_count = @ + 1]
    /\ UNCHANGED << sigVars, usb_ctx, openHandles, claimed, nextHandle,
                    outVars, cdi, sp, dda, ar, histVars >>

\* lines 78-82: FREE_AND_EXIT()
FREE_AND_EXIT ==
    /\ pc = "om_free_and_exit"
    /\ \E o \in FreeOutcomes(om.devs) :
        /\ liveLists' = FreedCount(liveLists, o)
        /\ om' = [om EXCEPT !.devs = FreedDevs(om.devs, o)]
        /\ IF o = "crash"
           THEN /\ pc' = "crashed"
                /\ UNCHANGED << data_arr_live, usb_ctx, exit_code >>
           ELSE /\ data_arr_live' = FALSE
                /\ usb_ctx' = FALSE
                /\ exit_code' = FatalExitCode(hist.fatal)
                /\ pc' = "exited"
    /\ UNCHANGED << sigVars, openHandles, claimed, nextHandle, stderr, cdi,
                    sp, dda, ar, histVars >>

\* line 169: libusb_get_device_list returns a list
OM_GetList ==
    /\ pc = "om_getlist"
    /\ \E l \in DevLists :
        om' = [om EXCEPT !.devs = [state |-> "live", list |-> l]]
    /\ liveLists' = liveLists + 1
    /\ pc' = "om_search"
    /\ UNCHANGED << sigVars, usb_ctx, openHandles, claimed, nextHandle,
                    outVars, cdi, sp, dda, ar, histVars >>

\* lines 183-191: dev_search, then break or free the list and try again
OM_Search ==
    /\ pc = "om_search"
    /\ LET found == dev_search(om.devs.list) IN
        IF found # NULL
        THEN /\ om' = [om EXCEPT !.micro_dev = found]
             /\ pc' = "om_handle_nodev"
             /\ UNCHANGED liveLists
        ELSE /\ om' = [om EXCEPT !.micro_dev = NULL,
                                 !.devs = FreedDevs(om.devs, "freed"),
                                 !.retry_count = @ + 1]
             /\ liveLists' = liveLists - 1
             /\ pc' = "om_enum_loop"
    /\ UNCHANGED << sigVars, usb_ctx, openHandles, claimed, nextHandle,
                    outVars, cdi, sp, dda, ar, histVars >>

\* line 194: HANDLE_ERR(!micro_dev, NODEV_ERR_MSG)
OM_HandleNoDev ==
    /\ pc = "om_handle_nodev"
    /\ IF om.micro_dev = NULL
       THEN /\ stderr' = stderr \cup {NODEV_ERR_MSG}
            /\ pc' = "om_free_and_exit"
            /\ UNCHANGED om
       ELSE /\ om' = [om EXCEPT !.retry_count = 0]
            /\ pc' = "om_open"
            /\ UNCHANGED stderr
    /\ hist' = [hist EXCEPT !.fatal =
                  IF om.micro_dev = NULL THEN "nodev" ELSE @]
    /\ UNCHANGED << sigVars, usbVars, exit_code, data_arr_live, cdi, sp,
                    dda, ar >>

\* results of libusb_open: the library has a handle to give while fewer
\* than MaxHandles were handed out
OpenResults == (IF nextHandle <= MaxHandles THEN {0} ELSE {})
               \cup {LIBUSB_ERROR_NO_DEVICE}

\* lines 196-215: one pass of the open loop
OM_Open ==
    /\ pc = "om_open"
    /\ IF om.retry_count < OPEN_RETRIES
       THEN \E e \in OpenResults :
            IF e = 0
            THEN /\ om' = [om EXCEPT !.errcode = 0, !.handle = nextHandle]
                 /\ openHandles' = openHandles \cup {nextHandle}
                 /\ nextHandle' = nextHandle + 1
                 /\ pc' = "om_open_check"
            ELSE /\ om' = [om EXCEPT !.errcode = e, !.retry_count = @ + 1]
                 /\ UNCHANGED << openHandles, nextHandle, pc >>
       ELSE /\ pc' = "om_open_check"
            /\ UNCHANGED << om, openHandles, nextHandle >>
    /\ hist' = [hist EXCEPT !.opens =
                  IF om.retry_count < OPEN_RETRIES THEN @ + 1 ELSE @]
    /\ UNCHANGED << sigVars, usb_ctx, claimed, liveLists, outVars, cdi, sp,
                    dda, ar >>

\* lines 217-221: open failed for good, or call claim_dev_interface
OM_OpenCheck ==
    /\ pc = "om_open_check"
    /\ IF om.errcode # 0
       THEN /\ stderr' = stderr \cup {OPEN_ERR_MSG}
            /\ pc' = "om_free_and_exit"
            /\ UNCHANGED cdi
       ELSE /\ cdi' = [CdiInit EXCEPT !.handle = om.handle, !.ret = "om"]
            /\ pc' = "cdi_loop"
            /\ UNCHANGED stderr
    /\ hist' = [hist EXCEPT !.fatal = IF om.errcode # 0 THEN "open" ELSE @]
    /\ UNCHANGED << sigVars, usbVars, exit_code, data_arr_live, om, sp, dda,
                    ar >>

\* a close that is left out
ClosedHandlesNone(h) == openHandles

\* libusb_close(h): the handles left open
ClosedHandles(h) == openHandles \ {h}

\* lines 222-226: after claim_dev_interface; on success the handle goes to
\* the caller, which passes it to send_packets
OM_ClaimCheck ==
    /\ pc = "om_claim_check"
    /\ IF om.errcode # 0
       THEN /\ openHandles' = ClosedHandles(om.handle)
            /\ hist' = [hist EXCEPT !.closes = Append(@, om.handle)]
            /\ pc' = "om_free_and_exit"
            /\ UNCHANGED << om, liveLists, sp >>
       ELSE /\ om' = OmInit
            /\ liveLists' = liveLists - 1
            /\ sp' = [SpInit EXCEPT !.current_handle = om.handle]
            /\ pc' = "sp_count"
            /\ hist' = [hist EXCEPT !.opens = 0, !.claims = 0]
            /\ UNCHANGED openHandles
    /\ UNCHANGED << sigVars, usb_ctx, claimed, nextHandle, outVars, cdi,
                    dda, ar >>

(***************************************************************************)
(* claim_dev_interface                                                     *)
(***************************************************************************)
ClaimResults == {0, LIBUSB_ERROR_BUSY, LIBUSB_ERROR_NO_DEVICE,
                 LIBUSB_ERROR_OTHER}

\* return of claim_dev_interface to its caller (line 221 or line 515)
CDI_Return(code) ==
    /\ cdi' = CdiInit
    /\ IF cdi.ret = "om"
       THEN /\ om' = [om EXCEPT !.errcode = code]
            /\ pc' = "om_claim_check"
            /\ UNCHANGED ar
       ELSE /\ ar' = [ar EXCEPT !.errcode = code]
            /\ pc' = "ar_claim_check"
            /\ UNCHANGED om

\* lines 245-246: the claims libusb_claim_interface(handle, 0) and
\* libusb_claim_interface(handle, 1) add when they return e0 and e1
NewClaims(h, e0, e1) ==
    (IF e0 = 0 THEN {<<h, 0>>} ELSE {}) \cup (IF e1 = 0 THEN {<<h, 1>>} ELSE {})

\* a release of interface 1 alone
PartialClaimsSecondOnly(h, e0, e1) ==
    IF e1 = 0 THEN {<<h, 1>>} ELSE {}

\* a release of interface 0 alone
PartialClaimsFirstOnly(h, e0, e1) ==
    IF e0 = 0 THEN {<<h, 0>>} ELSE {}

\* lines 256-257: the claims released after a failed attempt
PartialClaims(h, e0, e1) ==
    (IF e0 = 0 THEN {<<h, 0>>} ELSE {}) \cup (IF e1 = 0 THEN {<<h, 1>>} ELSE {})

\* lines 237-258: one pass of the claim loop: claim interface 0, then
\* interface 1; both claimed: return 0; else release what was claimed and
\* test the loop condition.  errcode0 and errcode1 are read only after the
\* loop (lines 261-265): the model records them when the loop ends, before
\* that the next pass overwrites them unread.
CDI_Attempt ==
    /\ pc = "cdi_loop"
    /\ cdi.retry < CLAIM_RETRIES
    /\ \E e0 \in ClaimResults, e1 \in ClaimResults :
        IF e0 = 0 /\ e1 = 0
        THEN /\ claimed' = claimed \cup NewClaims(cdi.handle, e0, e1)
             /\ CDI_Return(0)
        ELSE /\ claimed' = (claimed \cup NewClaims(cdi.handle, e0, e1))
                              \ PartialClaims(cdi.handle, e0, e1)
             /\ IF cdi.retry + 1 < CLAIM_RETRIES
                THEN /\ cdi' = [cdi EXCEPT !.retry = @ + 1]
                     /\ pc' = "cdi_loop"
                ELSE /\ cdi' = [cdi EXCEPT !.errcode0 = e0, !.errcode1 = e1,
                                           !.retry = @ + 1]
                     /\ pc' = "cdi_fail"
             /\ UNCHANGED << om, ar >>
    /\ hist' = [hist EXCEPT !.claims = @ + 1]
    /\ UNCHANGED << sigVars, usb_ctx, openHandles, nextHandle, liveLists,
                    outVars, sp, dda >>

\* the class of a claim failure, by the tests of lines 261 and 264 on the
\* last attempt's two error codes
ClaimFailClass(e0, e1) ==
    IF e0 = LIBUSB_ERROR_BUSY \/ e1 = LIBUSB_ERROR_BUSY
    THEN "claim_busy"
    ELSE IF e0 = LIBUSB_ERROR_NO_DEVICE \/ e1 = LIBUSB_ERROR_NO_DEVICE
    THEN "claim_gone"
    ELSE "claim_other"

\* the message of lines 261-268 for the last attempt's two error codes
ClaimFailMsg(e0, e1) ==
    IF e0 = LIBUSB_ERROR_BUSY \/ e1 = LIBUSB_ERROR_BUSY
    THEN {BUSY_ERR_MSG}
    ELSE IF e0 = LIBUSB_ERROR_NO_DEVICE \/ e1 = LIBUSB_ERROR_NO_DEVICE
    THEN {OPEN_ERR_MSG}
    ELSE {}

\* lines 347-349 and 417-422: send_packets starts with daemonize, which
\* replaces descriptor 2 by /dev/null: what attempt_reconnect's
\* claim_dev_interface writes is discarded
daemonized == cdi.ret = "ar"

\* lines 260-275: the final error handling
CDI_Fail ==
    /\ pc = "cdi_fail"
    /\ stderr' = IF daemonized THEN stderr
                  ELSE stderr \cup ClaimFailMsg(cdi.errcode0, cdi.errcode1)
    /\ CDI_Return(1)
    /\ hist' = [hist EXCEPT !.fatal =
                  IF daemonized THEN @
                  ELSE ClaimFailClass(cdi.errcode0, cdi.errcode1)]
    /\ UNCHANGED << sigVars, usbVars, exit_code, data_arr_live, sp, dda >>

OpenMicroNext ==
    \/ OM_Init \/ OM_EnumLoop \/ OM_GetListFail \/ OM_FreeRetry
    \/ FREE_AND_EXIT \/ OM_GetList \/ OM_Search
    \/ OM_HandleNoDev \/ OM_Open \/ OM_OpenCheck \/ OM_ClaimCheck
    \/ CDI_Attempt \/ CDI_Fail

(***************************************************************************)
(* The signal handler                                                      *)
(***************************************************************************)
\* nonstop_reset_handler, lines 132-137: runs when a signal whose handler
\* it is gets delivered, between any two steps of the main flow
nonstop_reset_handler ==
    /\ pc \notin {"done", "exited", "crashed"}
    /\ \E s \in handlers : TRUE
    /\ nonstop' = 0
    /\ signalled' = TRUE
    /\ UNCHANGED << pc, handlers, usbVars, outVars, om, cdi, sp, dda, ar,
                    histVars >>

(***************************************************************************)
(* Control transfers                                                       *)
(***************************************************************************)
\* what libusb_control_transfer may return for a 64-byte frame: all bytes
\* sent, a short count, or an error (a timeout among them)
XferResults == {PACKET_SIZE, 8, LIBUSB_ERROR_TIMEOUT}

\* a test that takes only an error code for a failure
TransferFailedOnError(sent) == sent < 0

\* lines 438 and 445: the test of a transfer's result
TransferFailed(sent) == sent # PACKET_SIZE

Min(a, b) == IF a < b THEN a ELSE b

\* the history after a transfer of frame f of the given kind on handle h
\* for stream offset pos, returning r
Transferred(kind, h, pos, f, r) ==
    LET x == [kind |-> kind, handle |-> h, pos |-> pos,
              full |-> (r = PACKET_SIZE), frame |-> f]
    IN  hist' = [hist EXCEPT
                !.prev = hist.last,
                !.last = x,
                !.lastData = IF kind = "data" THEN pos ELSE @,
                !.prevData = IF kind = "data" THEN hist.lastData ELSE @,
                !.dataOn = IF kind = "header"
                           THEN (IF h = hist.last.handle THEN @ ELSE 0)
                           ELSE Min(@ + 1, 2),
                !.failPos = IF r # PACKET_SIZE THEN pos ELSE @,
                !.afterStop = IF nonstop = 0 THEN Min(@ + 1, 3) ELSE @,
                !.afterSawStop = @ \/ hist.sawStop,
                !.onFailed = @ \/ (h \in hist.failedOn),
                !.onDead = @ \/ h \notin openHandles
                             \/ ~({<<h, 0>>, <<h, 1>>} \subseteq claimed),
                !.failedOn = IF r # PACKET_SIZE THEN @ \cup {h} ELSE @]

(***************************************************************************)
(* send_packets                                                            *)
(***************************************************************************)
\* line 350: count_color_commands (rgbmodes.c) reports the stream's length
SP_Count ==
    /\ pc = "sp_count"
    /\ \E n \in 1..MaxUnits : sp' = [sp EXCEPT !.command_cnt = n]
    /\ pc' = "sp_sigint"
    /\ UNCHANGED << sigVars, usbVars, outVars, om, cdi, dda, ar, histVars >>

\* line 351: signal(SIGINT, nonstop_reset_handler)
SP_SignalInt ==
    /\ pc = "sp_sigint"
    /\ handlers' = handlers \cup {"SIGINT"}
    /\ pc' = "sp_sigterm"
    /\ UNCHANGED << nonstop, signalled, usbVars, outVars, om, cdi, sp, dda,
                    ar, histVars >>

\* line 352: signal(SIGTERM, nonstop_reset_handler)
SP_SignalTerm ==
    /\ pc = "sp_sigterm"
    /\ handlers' = handlers \cup {"SIGTERM"}
    /\ pc' = "sp_set_nonstop"
    /\ UNCHANGED << nonstop, signalled, usbVars, outVars, om, cdi, sp, dda,
                    ar, histVars >>

\* line 354: nonstop = 1
SP_SetNonstop ==
    /\ pc = "sp_set_nonstop"
    /\ nonstop' = 1
    /\ pc' = "sp_loop"
    /\ UNCHANGED << handlers, signalled, usbVars, outVars, om, cdi, sp, dda,
                    ar, histVars >>

\* a start one unit into the stream
DisplayStartSecondUnit == 2 * BYTE_STEP

\* line 356: where every call of display_data_arr starts, as an offset
\* from *data_arr
DisplayStart == 0

\* line 356: the end of the stream, *data_arr+2*BYTE_STEP*command_cnt, as
\* an offset from *data_arr
StreamEnd(command_cnt) == 2 * BYTE_STEP * command_cnt

\* display_result and new_handle are locals of the loop bodies: they do
\* not outlive an iteration, the model clears them where the block ends.

\* line 355: while(nonstop), then the call of display_data_arr (lines
\* 431-435: the header template and the zeroed packet buffer)
SP_Loop ==
    /\ pc = "sp_loop"
    /\ IF nonstop # 0
       THEN /\ dda' = [colcommand |-> DisplayStart, sent |-> 0,
                       packet |-> ZeroFrame]
            /\ pc' = "dda_loop"
            /\ UNCHANGED hist
       ELSE /\ pc' = "sp_cleanup"
            /\ hist' = [hist EXCEPT !.sawStop = TRUE]
            /\ UNCHANGED dda
    /\ UNCHANGED << sigVars, usbVars, outVars, om, cdi, sp, ar >>

\* a loop condition that does not read the flag
DdaLoopCondNoFlag(colcommand, end, ns) == colcommand < end

\* line 436: the condition of display_data_arr's loop
DdaLoopCond(colcommand, end, ns) == colcommand < end /\ ns # 0

\* return of display_data_arr (free(packet); return result)
DDA_Return(result) ==
    /\ dda' = DdaInit
    /\ sp' = [sp EXCEPT !.display_result = result]
    /\ pc' = "sp_result"

\* line 436, and lines 455-456 when the loop ends
DDA_Loop ==
    /\ pc = "dda_loop"
    /\ IF DdaLoopCond(dda.colcommand, StreamEnd(sp.command_cnt), nonstop)
       THEN /\ pc' = "dda_header"
            /\ UNCHANGED << dda, sp >>
       ELSE DDA_Return(0)
    /\ hist' = [hist EXCEPT !.sawStop =
                  @ \/ (dda.colcommand < StreamEnd(sp.command_cnt)
                        /\ nonstop = 0)]
    /\ UNCHANGED << sigVars, usbVars, outVars, om, cdi, ar >>

\* lines 437-441 and send_display_command (459-471): the header transfer
DDA_Header ==
    /\ pc = "dda_header"
    /\ \E r \in XferResults :
        /\ Transferred("header", sp.current_handle, dda.colcommand,
                       header_packet, r)
        /\ IF TransferFailed(r)
           THEN DDA_Return(-1)
           ELSE /\ dda' = [dda EXCEPT !.sent = r]
                /\ pc' = "dda_data"
                /\ UNCHANGED sp
    /\ UNCHANGED << sigVars, usbVars, outVars, om, cdi, ar >>

\* an advance by one color command instead of two
NextColcommandOne(colcommand) == colcommand + BYTE_STEP

\* line 452: colcommand += 2*BYTE_STEP
NextColcommand(colcommand) == colcommand + 2 * BYTE_STEP

\* lines 442-453: fill the packet, the data transfer, advance
DDA_Data ==
    /\ pc = "dda_data"
    /\ LET filled == memcpy_unit(dda.packet, dda.colcommand) IN
       \E r \in XferResults :
        /\ Transferred("data", sp.current_handle, dda.colcommand, filled, r)
        /\ IF TransferFailed(r)
           THEN DDA_Return(-1)
           ELSE /\ dda' = [dda EXCEPT !.sent = r, !.packet = filled,
                             !.colcommand = NextColcommand(dda.colcommand)]
                /\ pc' = "dda_loop"
                /\ UNCHANGED sp
    /\ UNCHANGED << sigVars, usbVars, outVars, om, cdi, ar >>

\* a test for a positive result, which display_data_arr never returns
NeedReconnectPositive(display_result, ns) == display_result > 0 /\ ns # 0

\* line 357: the test that routes a failed pass to reconnection
NeedReconnect(display_result, ns) == display_result # 0 /\ ns # 0

\* line 357
SP_Result ==
    /\ pc = "sp_result"
    /\ IF NeedReconnect(sp.display_result, nonstop)
       THEN pc' = "sp_release" /\ UNCHANGED sp
       ELSE /\ pc' = "sp_loop"
            /\ sp' = [sp EXCEPT !.display_result = 0]
    /\ hist' = [hist EXCEPT !.sawStop =
                  @ \/ (sp.display_result # 0 /\ nonstop = 0)]
    /\ UNCHANGED << sigVars, usbVars, outVars, om, cdi, dda, ar >>

\* a release of interface 0 alone
ReleasedFirstOnly(h) == claimed \ {<<h, 0>>}

\* libusb_release_interface(h, 0); libusb_release_interface(h, 1): the
\* claims left
ReleasedClaims(h) == claimed \ {<<h, 0>>, <<h, 1>>}

\* a release that keeps the closed handle as the current one
CurrentHandleKept(h) == h

\* line 366: current_handle = NULL, after the handle was closed
CurrentHandleAfterClose(h) == NULL

\* lines 362-370: release the broken connection
SP_Release ==
    /\ pc = "sp_release"
    /\ IF sp.current_handle # NULL
       THEN /\ claimed' = ReleasedClaims(sp.current_handle)
            /\ openHandles' = ClosedHandles(sp.current_handle)
            /\ hist' = [hist EXCEPT !.closes = Append(@, sp.current_handle)]
            /\ sp' = [sp EXCEPT !.current_handle =
                                   CurrentHandleAfterClose(@)]
       ELSE UNCHANGED << claimed, openHandles, hist, sp >>
    /\ pc' = "sp_reconn_loop"
    /\ UNCHANGED << sigVars, usb_ctx, nextHandle, liveLists, outVars, om,
                    cdi, dda, ar >>

\* a reconnection loop that gives up after MaxAttempts failed attempts
ReconnLoopCondLimited(ns, current_handle) ==
    ns # 0 /\ current_handle = NULL /\ sp.reconnect_attempts < MaxAttempts

\* line 373: the condition of the reconnection loop
ReconnLoopCond(ns, current_handle) == ns # 0 /\ current_handle = NULL

\* line 373, and the call of attempt_reconnect of line 374
SP_ReconnLoop ==
    /\ pc = "sp_reconn_loop"
    /\ IF ReconnLoopCond(nonstop, sp.current_handle)
       THEN /\ ar' = ArInit
            /\ pc' = "ar_getlist"
            /\ UNCHANGED << hist, sp >>
       ELSE /\ pc' = "sp_loop"
            /\ sp' = [sp EXCEPT !.display_result = 0]
            /\ hist' = [hist EXCEPT !.sawStop = @ \/ (nonstop = 0)]
            /\ UNCHANGED ar
    /\ UNCHANGED << sigVars, usbVars, outVars, om, cdi, dda >>

\* line 382: reconnect_attempts++ (recorded up to MaxAttempts)
NextAttempts(n) == Min(n + 1, MaxAttempts)

\* lines 375-387: the result of one attempt_reconnect
SP_ReconnResult ==
    /\ pc = "sp_reconn_result"
    /\ sp' = IF sp.new_handle # NULL
             THEN [sp EXCEPT !.current_handle = sp.new_handle,
                             !.reconnect_attempts = 0,
                             !.new_handle = NULL]
             ELSE [sp EXCEPT !.reconnect_attempts = NextAttempts(@)]
    /\ pc' = "sp_reconn_loop"
    /\ UNCHANGED << sigVars, usbVars, outVars, om, cdi, dda, ar, histVars >>

\* lines 392-398: clean up when exiting
SP_Cleanup ==
    /\ pc = "sp_cleanup"
    /\ IF sp.current_handle # NULL
       THEN /\ claimed' = ReleasedClaims(sp.current_handle)
            /\ openHandles' = ClosedHandles(sp.current_handle)
            /\ hist' = [hist EXCEPT !.closes = Append(@, sp.current_handle)]
       ELSE UNCHANGED << claimed, openHandles, hist >>
    /\ pc' = "done"
    /\ UNCHANGED << sigVars, usb_ctx, nextHandle, liveLists, outVars, om,
                    cdi, sp, dda, ar >>

(***************************************************************************)
(* attempt_reconnect                                                       *)
(***************************************************************************)
\* return of attempt_reconnect to line 374
AR_Return(h) ==
    /\ ar' = ArInit
    /\ sp' = [sp EXCEPT !.new_handle = h]
    /\ pc' = "sp_reconn_result"

\* lines 495-501: libusb_get_device_list fails
AR_GetListFail ==
    /\ pc = "ar_getlist"
    /\ AR_Return(NULL)
    /\ UNCHANGED << sigVars, usbVars, outVars, om, cdi, dda, histVars >>

\* line 495: libusb_get_device_list returns a list
AR_GetList ==
    /\ pc = "ar_getlist"
    /\ \E l \in DevLists :
        ar' = [ar EXCEPT !.devs = [state |-> "live", list |-> l]]
    /\ liveLists' = liveLists + 1
    /\ pc' = "ar_search"
    /\ UNCHANGED << sigVars, usb_ctx, openHandles, claimed, nextHandle,
                    outVars, om, cdi, sp, dda, histVars >>

\* lines 504-508: dev_search
AR_Search ==
    /\ pc = "ar_search"
    /\ LET found == dev_search(ar.devs.list) IN
        IF found # NULL
        THEN /\ ar' = [ar EXCEPT !.micro_dev = found, !.retry = 0]
             /\ pc' = "ar_open"
             /\ UNCHANGED << liveLists, sp >>
        ELSE /\ liveLists' = liveLists - 1
             /\ AR_Return(NULL)
    /\ UNCHANGED << sigVars, usb_ctx, openHandles, claimed, nextHandle,
                    outVars, om, cdi, dda, histVars >>

\* a pass of the open loop that is not counted
NextOpenRetryStuck(retry) == retry

\* line 511: retry++, at the end of every pass of the open loop
NextOpenRetry(retry) == retry + 1

\* lines 511-515 and 524: one pass of the open loop, up to the call of
\* claim_dev_interface; lines 527-528 when the loop ends
AR_Open ==
    /\ pc = "ar_open"
    /\ IF ar.retry < OPEN_RETRIES
       THEN \E e \in OpenResults :
            IF e = 0
            THEN /\ ar' = [ar EXCEPT !.errcode = 0, !.handle = nextHandle]
                 /\ openHandles' = openHandles \cup {nextHandle}
                 /\ nextHandle' = nextHandle + 1
                 /\ cdi' = [CdiInit EXCEPT !.handle = nextHandle,
                                           !.ret = "ar"]
                 /\ pc' = "cdi_loop"
                 /\ UNCHANGED << liveLists, sp >>
            ELSE /\ ar' = [ar EXCEPT !.errcode = e,
                                     !.retry = NextOpenRetry(@)]
                 /\ UNCHANGED << openHandles, nextHandle, cdi, pc,
                                 liveLists, sp >>
       ELSE /\ liveLists' = liveLists - 1
            /\ AR_Return(NULL)
            /\ UNCHANGED << openHandles, nextHandle, cdi >>
    /\ hist' = IF ar.retry < OPEN_RETRIES
                THEN [hist EXCEPT !.opens = @ + 1]
                ELSE [hist EXCEPT !.opens = 0, !.claims = 0]
    /\ UNCHANGED << sigVars, usb_ctx, claimed, outVars, om, dda >>

\* lines 516-524: after claim_dev_interface
AR_ClaimCheck ==
    /\ pc = "ar_claim_check"
    /\ IF ar.errcode = 0
       THEN /\ liveLists' = liveLists - 1
            /\ AR_Return(ar.handle)
            /\ hist' = [hist EXCEPT !.opens = 0, !.claims = 0]
            /\ UNCHANGED openHandles
       ELSE /\ openHandles' = ClosedHandles(ar.handle)
            /\ hist' = [hist EXCEPT !.closes = Append(@, ar.handle)]
            /\ ar' = [ar EXCEPT !.handle = NULL,
                                !.retry = NextOpenRetry(@)]
            /\ pc' = "ar_open"
            /\ UNCHANGED << liveLists, sp >>
    /\ UNCHANGED << sigVars, usb_ctx, claimed, nextHandle, outVars, om, cdi,
                    dda >>

SendPacketsNext ==
    \/ SP_Count \/ SP_SignalInt \/ SP_SignalTerm \/ SP_SetNonstop
    \/ SP_Loop \/ DDA_Loop \/ DDA_Header \/ DDA_Data \/ SP_Result
    \/ SP_Release \/ SP_ReconnLoop \/ SP_ReconnResult \/ SP_Cleanup
    \/ AR_GetListFail \/ AR_GetList \/ AR_Search \/ AR_Open
    \/ AR_ClaimCheck

Next == OpenMicroNext \/ SendPacketsNext \/ nonstop_reset_handler

Spec == Init /\ [][Next]_vars

(***************************************************************************)
(* The device matcher on its own: open_micro at line 183 with a list of    *)
(* one or two devices whose vendor id, product id and readability range    *)
(* over the ids of the tables and ids outside them.                        *)
(***************************************************************************)
MatchVendors == {DEV_VID_KINGSTON, DEV_VID_HP, 7531}
MatchProducts == {5919, 3979, 652, 1164, 1676, 2444, 2}
MatchDevices ==
    {Device(v, p, ok) : v \in MatchVendors, p \in MatchProducts,
                        ok \in BOOLEAN}
MatchLists ==
    {<<d>> : d \in MatchDevices}
        \cup {<<d1, d2>> : d1 \in MatchDevices, d2 \in MatchDevices}

MatchInit ==
    /\ pc = "om_search"
    /\ nonstop = 0
    /\ handlers = {}
    /\ usb_ctx = TRUE
    /\ openHandles = {}
    /\ claimed = {}
    /\ nextHandle = 1
    /\ liveLists = 1
    /\ data_arr_live = TRUE
    /\ \E l \in MatchLists :
          om = [OmInit EXCEPT !.devs = [state |-> "live", list |-> l]]
    /\ cdi = CdiInit
    /\ sp = SpInit
    /\ dda = DdaInit
    /\ ar = ArInit
    /\ exit_code = 0
    /\ stderr = {}
    /\ signalled = FALSE
    /\ hist = HistInit

MatchNext == OM_Search

MatchSpec == MatchInit /\ [][MatchNext]_vars

(***************************************************************************)
(* Properties                                                              *)
(***************************************************************************)
Count(x, seq) == Cardinality({i \in 1..Len(seq) : seq[i] = x})
BothClaimed(h) == {<<h, 0>>, <<h, 1>>}

\* positions of the streaming loop of send_packets (lines 355-390), the
\* calls it makes included
InCdiOfReconnect == pc \in {"cdi_loop", "cdi_fail"}
                    /\ cdi.ret = "ar"
StreamingPcs == {"sp_loop", "dda_loop", "dda_header", "dda_data", "sp_result"}
ReconnectPcs == {"sp_release", "sp_reconn_loop", "sp_reconn_result",
                 "ar_getlist", "ar_search", "ar_open", "ar_claim_check"}
InLoop == pc \in StreamingPcs \cup ReconnectPcs \/ InCdiOfReconnect

\* C1 as stated: with no stop signal and no transfer failure, no frame is
\* sent after the pair of the last unit (the header that would follow the
\* data frame of unit N-1 is never sent).
C1_NoFrameAfterLastUnit ==
    (~signalled /\ hist.failedOn = {}) =>
        ~( /\ hist.last.kind = "header"
           /\ hist.prev.kind = "data"
           /\ hist.prev.pos = StreamEnd(sp.command_cnt) - UnitLen )

\* C1 amended: while no transfer has failed, header and data frames
\* alternate and the data frames carry the units in stream order, the unit
\* after the last one being the first one again (the stream is replayed
\* pass after pass); without a stop signal send_packets does not reach its
\* clean-up.
C1_ReplaysStreamInOrder ==
    /\ hist.failedOn = {} =>
        /\ hist.last.kind = "data" =>
            /\ hist.prev.kind = "header"
            /\ hist.last.pos = hist.prev.pos
            /\ hist.lastData =
                 IF hist.prevData = -1 THEN 0
                 ELSE (hist.prevData + UnitLen) % StreamEnd(sp.command_cnt)
        /\ hist.last.kind = "header" =>
            /\ hist.prev.kind \in {"none", "data"}
            /\ hist.last.pos =
                 IF hist.lastData = -1 THEN 0
                 ELSE (hist.lastData + UnitLen) % StreamEnd(sp.command_cnt)
    /\ ~signalled => pc \notin {"sp_cleanup", "done"}

\* C1 witness: no signal, no failure, two units, and the data frame of unit
\* 0 was sent again right after the data frame of the last unit.
C1_Witness ==
    /\ ~signalled /\ hist.failedOn = {}
    /\ sp.command_cnt = 2
    /\ hist.last.kind = "data" /\ hist.last.full
    /\ hist.lastData = 0
    /\ hist.prevData = UnitLen

\* C2 as stated: the first data frame sent on a connection obtained after a
\* transfer failure carries the unit at which the transfer failed.
C2_ResumesAtFailedUnit ==
    ( /\ hist.last.kind = "data"
      /\ hist.dataOn = 1
      /\ hist.failedOn # {} ) => hist.last.pos = hist.failPos

\* C2 amended: the stream position does not survive a reconnection: the
\* first data frame sent on every connection, a connection obtained by
\* reconnection included, carries unit 0, whatever unit the failed transfer
\* was at.
C2_RestartsAtFirstUnit ==
    (hist.last.kind = "data" /\ hist.dataOn = 1) => hist.last.pos = 0

\* C2 witness: a transfer failed at a later unit, the reconnection
\* succeeded and the first data frame went out on the new handle.
C2_Witness ==
    /\ hist.last.kind = "data" /\ hist.last.full
    /\ hist.dataOn = 1
    /\ hist.failPos > 0
    /\ hist.failedOn # {}
    /\ hist.last.handle \notin hist.failedOn

\* C3: every data transfer directly follows a header transfer that
\* returned PACKET_SIZE on the same handle.
C3_DataFollowsGoodHeader ==
    hist.last.kind = "data" =>
        /\ hist.prev.kind = "header"
        /\ hist.prev.full
        /\ hist.prev.handle = hist.last.handle

\* C3 witness: a data transfer on a handle obtained by reconnection, after
\* an earlier header transfer failed.
C3_Witness ==
    /\ hist.last.kind = "data"
    /\ hist.failedOn # {}
    /\ hist.last.handle \notin hist.failedOn
    /\ hist.closes # <<>>

\* C4 as stated: once a signal was delivered to the installed handler the
\* flag is 'stop' and stays 'stop' (so that send_packets returns).
C4_DeliveredSignalStops == signalled => nonstop = 0

\* C5: no control transfer is initiated after a loop check read the flag
\* as 'stop', and when send_packets returns no handle is open and no
\* interface is claimed.
C5_StopSeenEndsTransfers ==
    /\ ~hist.afterSawStop
    /\ hist.sawStop => pc \in {"sp_result", "sp_loop", "sp_cleanup", "done"}
    /\ pc = "done" => openHandles = {} /\ claimed = {}

\* C5 witness: the stop was read while a handle was held, transfers having
\* been made on it, and send_packets returned.
C5_Witness ==
    /\ pc = "done"
    /\ hist.sawStop
    /\ sp.current_handle # NULL
    /\ hist.last.kind = "data" /\ hist.last.full

\* an upper bound on the steps the main flow has left before send_packets
\* has returned, once the flag is 'stop': the rest of the current cycle or
\* of the current reconnection attempt (whose open and claim loops are
\* bounded), then the loop checks and the clean-up
ArOpenRank(retry) == 5 + 7 * (OPEN_RETRIES - retry)
StopRank ==
    CASE pc = "done" -> 0
      [] pc = "sp_cleanup" -> 1
      [] pc = "sp_loop" -> 2
      [] pc \in {"sp_result", "sp_reconn_loop"} -> 3
      [] pc \in {"dda_loop", "sp_release", "sp_reconn_result"} -> 4
      [] pc = "dda_data" -> 5
      [] pc = "dda_header" -> 6
      [] pc = "ar_open" -> ArOpenRank(ar.retry)
      [] pc = "ar_claim_check" -> ArOpenRank(ar.retry + 1) + 1
      [] pc = "cdi_fail" -> ArOpenRank(ar.retry + 1) + 2
      [] pc = "cdi_loop" ->
            ArOpenRank(ar.retry + 1) + 3 + (CLAIM_RETRIES - cdi.retry)
      [] pc = "ar_search" -> ArOpenRank(0) + 1
      [] pc = "ar_getlist" -> ArOpenRank(0) + 2
      [] OTHER -> 0

\* C6: at most 2 transfers are ever initiated while the flag is 'stop',
\* and once the flag is 'stop' inside the loop every step of the main flow
\* brings the return of send_packets nearer (StopRank decreases), whatever
\* the number of units left: the loop stops within a bounded number of
\* steps that does not depend on the stream.
C6_StopWithinOneCycle ==
    [][ /\ hist'.afterStop <= 2
        /\ (InLoop /\ nonstop = 0) => StopRank' < StopRank ]_vars

\* C6 witness: the flag was set with units left to send (an unfinished
\* pass), two more transfers were initiated and send_packets returned.
C6_Witness ==
    /\ pc = "done"
    /\ hist.afterStop = 2
    /\ sp.command_cnt = MaxUnits
    /\ hist.last.pos = 0

\* C7: the streaming loop is left without a handle, and send_packets
\* returns without one, only when the flag is 'stop' (the reconnection
\* loop ends only by success or stop), and the process does not exit or
\* crash once send_packets has installed its handlers.
C7_ReconnectUntilSuccessOrStop ==
    /\ (pc \in StreamingPcs \cup {"sp_cleanup", "done"}
        /\ sp.current_handle = NULL) => nonstop = 0
    /\ pc \in {"exited", "crashed"} => handlers = {}

\* C7 witness: MaxAttempts reconnection attempts failed in a row and the
\* next attempt is starting.
C7_Witness ==
    /\ pc = "ar_getlist"
    /\ sp.reconnect_attempts = MaxAttempts
    /\ nonstop = 1

\* C8: a transfer failure does not end the process; no transfer is
\* initiated on a handle on which a transfer failed; such a handle is
\* closed once, with both interfaces released, before the flow leaves the
\* handling of the failure (until then it is still the current handle).
C8_FailureRoutedToReconnect ==
    /\ pc \in {"exited", "crashed"} => hist.last.kind = "none"
    /\ ~hist.onFailed
    /\ \A h \in hist.failedOn :
         IF h \in openHandles
         THEN /\ pc \in {"sp_result", "sp_release", "sp_loop", "sp_cleanup"}
              /\ sp.current_handle = h
              /\ Count(h, hist.closes) = 0
         ELSE /\ Count(h, hist.closes) = 1
              /\ claimed \cap BothClaimed(h) = {}

\* C8 witness: a header transfer failed with the flag at 'continue', the
\* handle was closed and a reconnection attempt is starting.
C8_Witness ==
    /\ pc = "ar_getlist"
    /\ hist.last.kind = "header" /\ ~hist.last.full
    /\ hist.last.handle \notin openHandles
    /\ nonstop = 1

\* C9: at most one handle is open; none is open, and no interface is
\* claimed, when an open is about to be attempted.
C9_OneHandleOpen ==
    /\ Cardinality(openHandles) <= 1
    /\ pc \in {"om_open", "ar_getlist", "ar_search", "ar_open"} =>
          openHandles = {} /\ claimed = {}

\* C9 witness: in a reconnection, a handle was opened, its claim failed,
\* it was closed and the next open is about to be attempted.
C9_Witness ==
    /\ pc = "ar_open"
    /\ ar.retry > 0
    /\ Len(hist.closes) >= 2

\* C10: where open_micro ends the process, and where send_packets returns,
\* no handle is open, no interface is claimed and no device list is live;
\* where open_micro or attempt_reconnect returns a handle, that handle with
\* its two claims is all that is left; where attempt_reconnect returns
\* NULL nothing is left.
OnlyHandleLeft(h) ==
    /\ liveLists = 0
    /\ openHandles = (IF h = NULL THEN {} ELSE {h})
    /\ claimed = (IF h = NULL THEN {} ELSE BothClaimed(h))
C10_CleanupOnEveryExit ==
    /\ pc \in {"exited", "crashed", "done"} => OnlyHandleLeft(NULL)
    /\ pc = "sp_count" => sp.current_handle # NULL
                          /\ OnlyHandleLeft(sp.current_handle)
    /\ pc = "sp_reconn_result" => OnlyHandleLeft(sp.new_handle)

\* C10 witness: open_micro ended the process after the claim failed for
\* good with the device busy; the handle it had opened was closed.
C10_Witness ==
    /\ pc = "exited"
    /\ hist.closes # <<>>
    /\ BUSY_ERR_MSG \in stderr

\* C11 as stated: the exit code with which open_micro ends the process for
\* a fatal condition differs from the exit code of every other class of
\* fatal condition.
C11_DistinctExitCodes ==
    pc = "exited" =>
        /\ exit_code = FatalExitCode(hist.fatal)
        /\ \A c \in FatalClasses \ {hist.fatal} : FatalExitCode(c) # exit_code

\* C12 as stated: open_micro ends the process only after writing a
\* message, and a claim failure writes the message of its own class: the
\* busy message for busy, another message for a vanished device, a third
\* one for any other error.
C12_FatalExitHasOwnMessage ==
    pc = "exited" =>
        /\ stderr # {}
        /\ hist.fatal = "claim_busy" => stderr = {BUSY_ERR_MSG}
        /\ hist.fatal = "claim_gone" =>
              Cardinality(stderr) = 1 /\ BUSY_ERR_MSG \notin stderr
        /\ hist.fatal = "claim_other" =>
              Cardinality(stderr) = 1
              /\ stderr \cap {BUSY_ERR_MSG, OPEN_ERR_MSG} = {}

\* C13 as stated: at most ENUM_RETRIES enumerate-and-scan attempts are
\* made; the device handed to the open step is the first compatible one
\* of the list of the attempt that found it; and when no attempt finds a
\* device the process ends by exit with exactly one of the two messages:
\* the no-device message when the last list was retrieved and nothing
\* matched, the list-retrieval message when the list could not be
\* retrieved.
C13_LocateOrOneFatalOutcome ==
    /\ pc \in {"om_getlist", "om_search", "om_free_retry"} =>
          om.retry_count < ENUM_RETRIES
    /\ (pc = "om_handle_nodev" /\ om.micro_dev # NULL) =>
          /\ om.devs.state = "live"
          /\ is_compatible_mic(om.devs.list[om.micro_dev])
          /\ \A j \in 1..(om.micro_dev - 1) :
                ~is_compatible_mic(om.devs.list[j])
    /\ (pc \in {"exited", "crashed"}
        /\ hist.fatal \in {"none", "devlist", "nodev"}) =>
          /\ pc = "exited"
          /\ hist.fatal = "nodev" => stderr = {NODEV_ERR_MSG}
          /\ hist.fatal = "devlist" => stderr = {DEVLIST_ERR_MSG}

\* the identity table of the supported microphones: (vendor, product)
IdentityTable ==
    { <<2385, 5919>>, <<1008, 3979>>, <<1008, 652>>, <<1008, 1164>>,
      <<1008, 1676>>, <<1008, 2444>> }
InTable(d) == d.descr_ok /\ <<d.idVendor, d.idProduct>> \in IdentityTable

\* C14: a device is accepted exactly when its descriptor can be read and
\* its (vendor, product) pair is in the identity table: the device the
\* search returns is the first such device of the list, a list the search
\* rejects has none, and the search itself never ends the process
\* (an unreadable descriptor is a rejection, not an error).
C14_AcceptsExactlyTable ==
    /\ pc \in {"om_search", "om_handle_nodev", "om_enum_loop"}
    /\ pc = "om_handle_nodev" =>
          /\ om.micro_dev \in 1..Len(om.devs.list)
          /\ InTable(om.devs.list[om.micro_dev])
          /\ \A j \in 1..(om.micro_dev - 1) : ~InTable(om.devs.list[j])
    /\ pc = "om_enum_loop" =>
          /\ om.micro_dev = NULL
          /\ \A j \in 1..Len(om.devs.list) : ~InTable(om.devs.list[j])

\* C14 witness: the search skipped a readable device that has a known
\* vendor with the other vendor's product id and returned the table
\* device after it.
C14_Witness ==
    /\ pc = "om_handle_nodev"
    /\ om.micro_dev = 2
    /\ om.devs.list[1] = Device(DEV_VID_HP, 5919, TRUE)
    /\ om.devs.list[2] = Device(DEV_VID_KINGSTON, 5919, TRUE)

\* C15: every data frame sent for stream offset i is PACKET_SIZE bytes,
\* its first 2*BYTE_STEP bytes are the stream's bytes i .. i+2*BYTE_STEP-1
\* and all its other bytes are zero, whatever the buffer held before; and
\* wherever a frame is built the bytes copied end at or before the end of
\* the stream.
C15_DataFrameIsUnitZeroPadded ==
    /\ hist.last.kind = "data" =>
          /\ Len(hist.last.frame) = 64
          /\ \A k \in 1..64 :
                hist.last.frame[k] =
                    IF k <= 2 * BYTE_STEP
                    THEN StreamByte(hist.last.pos + k - 1)
                    ELSE 0
          /\ hist.last.pos + 2 * BYTE_STEP <= StreamEnd(sp.command_cnt)
    /\ pc = "dda_data" =>
          /\ dda.colcommand >= 0
          /\ dda.colcommand + 2 * BYTE_STEP <= StreamEnd(sp.command_cnt)

\* C15 witness: the data frame of the second unit was sent from the buffer
\* that had carried the first unit.
C15_Witness ==
    /\ hist.last.kind = "data" /\ hist.last.full
    /\ hist.last.pos = 2 * BYTE_STEP
    /\ hist.prevData = 0
    /\ hist.last.frame[1] # hist.last.frame[2]

\* C16: every header frame sent is 64 bytes: 0x04, 0xf2, then 0x01 as
\* byte 8 (counted from 0) and zero everywhere else, in every pass and
\* after reconnections.
C16_HeaderFrameExact ==
    hist.last.kind = "header" =>
        /\ Len(hist.last.frame) = 64
        /\ \A k \in 1..64 :
              hist.last.frame[k] =
                  IF k = 1 THEN 4
                  ELSE IF k = 2 THEN 242
                  ELSE IF k = 9 THEN 1
                  ELSE 0

\* C16 witness: a header frame sent on a handle obtained by reconnection,
\* after data frames had been sent on an earlier handle.
C16_Witness ==
    /\ hist.last.kind = "header"
    /\ hist.failedOn # {}
    /\ hist.last.handle \notin hist.failedOn
    /\ hist.lastData >= 0

\* C17: claim_dev_interface holds neither interface of its handle where an
\* attempt starts and where the loop has ended in failure; where it has
\* returned, its caller finds both interfaces held after a return of 0 and
\* neither after a return of 1.
C17_NoPartialClaimPersists ==
    /\ pc \in {"cdi_loop", "cdi_fail"} =>
          claimed \cap BothClaimed(cdi.handle) = {}
    /\ pc = "om_claim_check" =>
          IF om.errcode = 0
          THEN BothClaimed(om.handle) \subseteq claimed
          ELSE claimed \cap BothClaimed(om.handle) = {}
    /\ pc = "ar_claim_check" =>
          IF ar.errcode = 0
          THEN BothClaimed(ar.handle) \subseteq claimed
          ELSE claimed \cap BothClaimed(ar.handle) = {}

\* C17 witness: the last attempt claimed interface 0 and failed to claim
\* interface 1, and the loop has ended.
C17_Witness ==
    /\ pc = "cdi_fail"
    /\ cdi.errcode0 = 0
    /\ cdi.errcode1 = LIBUSB_ERROR_BUSY
    /\ cdi.retry = CLAIM_RETRIES

\* C18 as stated: in every connection attempt, open_micro or one
\* attempt_reconnect, libusb_open is called at most 3 times and the claim
\* of the interface pair is attempted at most 3 times.
C18_ThreeOpensThreeClaims ==
    /\ hist.opens <= 3
    /\ hist.claims <= 3

\* C18 amended: in every connection attempt libusb_open is called at most
\* 3 times; in open_micro the claim of the pair is attempted at most 3
\* times; in attempt_reconnect the claim is attempted at most 3 times
\* after each open, so more than 3 times in one attempt_reconnect when
\* more than one open succeeded, and never more than 3 times the number
\* of opens.
C18_ThreeClaimsPerOpen ==
    /\ hist.opens <= 3
    /\ cdi.retry <= 3
    /\ hist.claims <= 3 * hist.opens
    /\ (pc \notin ReconnectPcs /\ ~InCdiOfReconnect) => hist.claims <= 3

\* C18 witness: in one attempt_reconnect the second open succeeded after
\* the claim had failed for good on the first, and the claim was attempted
\* 6 times.
C18_Witness ==
    /\ pc = "ar_claim_check"
    /\ hist.opens = 2
    /\ hist.claims = 6

\* C19 as stated: libusb_free_device_list is only ever applied to a list
\* that was retrieved and not yet freed (no free of an unretrieved list,
\* no second free), at most one list is live, and none is live where
\* open_micro, attempt_reconnect or the process ends.
C19_EachListFreedOnce ==
    /\ pc \in {"om_free_retry", "om_free_and_exit"} =>
          om.devs.state = "live"
    /\ pc \in {"ar_search", "ar_open", "ar_claim_check"} =>
          ar.devs.state = "live"
    /\ liveLists \in {0, 1}
    /\ pc \in {"exited", "crashed", "done", "sp_count", "sp_reconn_result"} =>
          liveLists = 0
    /\ pc # "crashed"

\* C20: no transfer is initiated on a handle that is null, closed or
\* without its two claims; no handle is passed to libusb_close twice;
\* and wherever a transfer is about to be initiated the current handle is
\* open, holds both interfaces, was never closed and is the handle opened
\* last (after a reconnection, the new one).
C20_TransfersOnLiveHandleOnly ==
    /\ ~hist.onDead
    /\ \A i, j \in 1..Len(hist.closes) :
          hist.closes[i] = hist.closes[j] => i = j
    /\ pc \in {"dda_header", "dda_data"} =>
          /\ sp.current_handle # NULL
          /\ sp.current_handle \in openHandles
          /\ BothClaimed(sp.current_handle) \subseteq claimed
          /\ Count(sp.current_handle, hist.closes) = 0
          /\ sp.current_handle = nextHandle - 1
    /\ (pc = "dda_data" /\ hist.last.kind # "none") =>
          hist.last.handle = sp.current_handle

\* C20 witness: a transfer failed on the first handle, the reconnection
\* opened a second handle whose claim failed and a third one that it
\* returned, a signal was delivered, and a data transfer is about to be
\* initiated on the third handle.
C20_Witness ==
    /\ pc = "dda_data"
    /\ hist.closes = <<1, 2>>
    /\ sp.current_handle = 3
    /\ hist.failedOn = {1}
    /\ signalled

====
